---- MODULE Spec2Model ----
(***************************************************************************)
(* Model of the YouTube SEO workbench: the page component (Home, with its  *)
(* handleAnalyze handler and prettyFrequency helper), the /api/analyze     *)
(* route handler (POST) and the text-statistics aggregator behind it.      *)
(*                                                                         *)
(* Texts are sequences of one-character strings.  Optional values (null,   *)
(* undefined, an omitted JSON property) are sequences of length 0 or 1.    *)
(***************************************************************************)
EXTENDS Integers, Sequences, FiniteSets, TLC

VARIABLES channelsInput, videoUrl, isLoading, error, data, calls,
          routeRequest, routeWorld, routeResponse,
          samples, analysis, freqInput, pretty

vars == <<channelsInput, videoUrl, isLoading, error, data, calls,
          routeRequest, routeWorld, routeResponse,
          samples, analysis, freqInput, pretty>>

pageVars == <<channelsInput, videoUrl, isLoading, error, data, calls>>
routeVars == <<routeRequest, routeWorld, routeResponse>>
statsVars == <<samples, analysis, freqInput, pretty>>

\* ------------------------------------------------------------------ bounds

\* Longest text typed into the channel textarea (besides the default text).
MaxChannelText == 2
\* Longest text typed into the video link field.
MaxVideoText == 2
\* Calls of handleAnalyze that may be awaiting at once (the guard that keeps
\* the model finite; the button's disabled attribute keeps it at one).
MaxInFlight == 2
\* Most tokens in the channel samples handed to the aggregator.
MaxTokens == 3
\* Largest count in a frequency map handed to prettyFrequency directly.
MaxCount == 2

\* ------------------------------------------------------------ optional values

None == << >>
Some(x) == << x >>

\* ------------------------------------------------------------------ texts

Whitespace == {" ", "\n"}
ChannelChars == {"a", " ", "\n"}
VideoChars == {"v", " "}

TextsUpTo(chars, n) == UNION {[1..k -> chars] : k \in 0..n}

\* String.prototype.trim: strips whitespace (line terminators included) from both ends.
RECURSIVE TrimStart(_)
TrimStart(t) ==
    IF t = << >> THEN << >>
    ELSE IF Head(t) \in Whitespace THEN TrimStart(Tail(t)) ELSE t

RECURSIVE TrimEnd(_)
TrimEnd(t) ==
    IF t = << >> THEN << >>
    ELSE IF t[Len(t)] \in Whitespace THEN TrimEnd(SubSeq(t, 1, Len(t) - 1)) ELSE t

Trim(t) == TrimEnd(TrimStart(t))

\* String.prototype.split("\n"): the pieces between newlines, empty ones kept.
RECURSIVE SplitLines(_)
SplitLines(t) ==
    IF \A i \in 1..Len(t) : t[i] # "\n" THEN << t >>
    ELSE LET k == CHOOSE i \in 1..Len(t) :
                      t[i] = "\n" /\ \A j \in 1..(i - 1) : t[j] # "\n"
         IN << SubSeq(t, 1, k - 1) >> \o SplitLines(SubSeq(t, k + 1, Len(t)))

RECURSIVE MapTrim(_)
MapTrim(ls) == IF ls = << >> THEN << >> ELSE << Trim(Head(ls)) >> \o MapTrim(Tail(ls))

\* Array.prototype.filter(Boolean) on strings: the empty string is falsy.
RECURSIVE FilterNonEmpty(_)
FilterNonEmpty(ls) ==
    IF ls = << >> THEN << >>
    ELSE IF Head(ls) = << >> THEN FilterNonEmpty(Tail(ls))
         ELSE << Head(ls) >> \o FilterNonEmpty(Tail(ls))

\* const defaultChannels = [url1, url2].join("\n")
defaultChannels == << "a", "\n", "a" >>

ChannelTexts == TextsUpTo(ChannelChars, MaxChannelText) \cup {defaultChannels}
VideoTexts == TextsUpTo(VideoChars, MaxVideoText)

\* ------------------------------------------------------------------ messages

AddChannelMsg == "Add at least one channel to analyze."
FailedMsg == "Failed to analyze channels."
PageUnexpectedMsg == "Unexpected error occurred."
RouteUnexpectedMsg == "Unexpected error"
InvalidInputMsg == "InvalidInput"
JsonSyntaxMsg == "Unexpected token in JSON"
FetchFailedMsg == "Failed to fetch"
ResolutionMsgs == {"", "ResolutionFailure"}

\* A thrown value: an Error with a message, or a value that is no Error.
Threw(isErr, msg) == [kind |-> "threw", isError |-> isErr, message |-> msg]
Returned(v) == [kind |-> "returned", value |-> v]

\* ------------------------------------------------- aggregator entry point

\* What the data-fetching collaborator does for one request: how the channel
\* lookup and the target video lookup end, and the message of what it throws.
Worlds ==
    [channels : {"ok", "noText", "throwsError", "throwsOther"},
     video : {"ok", "throwsError", "throwsOther"},
     message : ResolutionMsgs]

\* The outbound result: one analysis per requested channel, and the target
\* video with its recommendation when one was resolved.
ResultBody(channels, target) ==
    [kind |-> "result", channelAnalyses |-> channels,
     targetVideo |-> target,
     recommendation |-> IF target = None THEN None ELSE Some("recommendation")]

analyzeSupplied(payload, world) ==
    IF world.channels = "throwsError" THEN Threw(TRUE, world.message)
    ELSE IF world.channels = "throwsOther" THEN Threw(FALSE, world.message)
    ELSE IF world.channels = "noText" THEN Threw(TRUE, InvalidInputMsg)
    ELSE IF payload.targetVideoUrl = None
         THEN Returned(ResultBody(payload.channels, None))
    ELSE IF world.video = "throwsError" THEN Threw(TRUE, world.message)
    ELSE IF world.video = "throwsOther" THEN Threw(FALSE, world.message)
    ELSE Returned(ResultBody(payload.channels, Some(payload.targetVideoUrl[1])))

\* analyzeChannelsAndSuggest(payload): InvalidInput when no channel is supplied or
\* none yields text; a failure of the collaborator surfaces unchanged.
analyzeChannelsAndSuggest(payload, world) ==
    IF payload.channels = << >> THEN Threw(TRUE, InvalidInputMsg)
    ELSE analyzeSupplied(payload, world)

\* ------------------------------------------------------------ route handler

JsonResponse(body, status) == [status |-> status, body |-> body]

RouteCatchOkStatus(thrown) ==
    JsonResponse([kind |-> "error",
                  error |-> IF thrown.isError THEN thrown.message
                            ELSE RouteUnexpectedMsg],
                 200)

\* catch (error) { message = error instanceof Error ? error.message : "Unexpected error" }
RouteCatch(thrown) ==
    JsonResponse([kind |-> "error",
                  error |-> IF thrown.isError THEN thrown.message
                            ELSE RouteUnexpectedMsg],
                 400)

\* export async function POST(request): `body` is None when the request body is
\* not JSON (request.json() throws a SyntaxError), else Some(payload).
POST(body, world) ==
    LET outcome == IF body = None THEN Threw(TRUE, JsonSyntaxMsg)
                   ELSE analyzeChannelsAndSuggest(body[1], world)
    IN  IF outcome.kind = "returned"
        THEN JsonResponse(outcome.value, 200)
        ELSE RouteCatch(outcome)

\* Response.ok
ResponseOk(response) == response.status \in 200..299

\* ------------------------------------------------------------------ the page

channelsUnfiltered == MapTrim(SplitLines(channelsInput))

\* const channels = useMemo(() => channelsInput.split("\n").map(trim).filter(Boolean))
channels == FilterNonEmpty(MapTrim(SplitLines(channelsInput)))

RequestBodyUntrimmed ==
    [channels |-> channels,
     targetVideoUrl |-> IF videoUrl = << >> THEN None ELSE Some(videoUrl)]

\* body: JSON.stringify({ channels, targetVideoUrl: videoUrl.trim() || undefined });
\* JSON.stringify leaves out a property whose value is undefined.
RequestBody ==
    [channels |-> channels,
     targetVideoUrl |-> IF Trim(videoUrl) = << >> THEN None ELSE Some(Trim(videoUrl))]

\* <button disabled={isLoading}>
ButtonNeverDisabled == FALSE
ButtonDisabled == isLoading

\* JavaScript truthiness of json.error: absent on a result, else a non-empty string.
JsonError(json) == IF json.kind = "error" THEN json.error ELSE ""

\* The call of handleAnalyze awaiting at position i of `calls` ends: it leaves
\* the list, and `finally` has set isLoading to false.
Without(i) == SubSeq(calls, 1, i - 1) \o SubSeq(calls, i + 1, Len(calls))

HandleFailureKeepsLoading(i, thrown) ==
    /\ error' = Some(IF thrown.isError THEN thrown.message ELSE PageUnexpectedMsg)
    /\ calls' = Without(i)
    /\ UNCHANGED <<channelsInput, videoUrl, data, isLoading>>

\* catch (requestError) { setError(message) } finally { setIsLoading(false) }
HandleFailure(i, thrown) ==
    /\ error' = Some(IF thrown.isError THEN thrown.message ELSE PageUnexpectedMsg)
    /\ isLoading' = FALSE
    /\ calls' = Without(i)
    /\ UNCHANGED <<channelsInput, videoUrl, data>>

\* onChange of the textarea and of the video link input.
SetChannelsInput ==
    /\ \E v \in ChannelTexts : channelsInput' = v
    /\ UNCHANGED <<videoUrl, isLoading, error, data, calls>>

SetVideoUrl ==
    /\ \E v \in VideoTexts : videoUrl' = v
    /\ UNCHANGED <<channelsInput, isLoading, error, data, calls>>

\* handleAnalyze with no channel: the message is set and the handler returns.
ClickRejected ==
    /\ ~ButtonDisabled
    /\ channels = << >>
    /\ error' = Some(AddChannelMsg)
    /\ UNCHANGED <<channelsInput, videoUrl, isLoading, data, calls>>

ClickSendsKeepsData ==
    /\ ~ButtonDisabled
    /\ channels # << >>
    /\ Len(calls) < MaxInFlight
    /\ isLoading' = TRUE
    /\ error' = None
    /\ calls' = Append(calls, [pc |-> "fetch", request |-> RequestBody,
                               response |-> None])
    /\ UNCHANGED <<channelsInput, videoUrl, data>>

\* handleAnalyze up to its first await: the state is reset and the request sent.
ClickSends ==
    /\ ~ButtonDisabled
    /\ channels # << >>
    /\ Len(calls) < MaxInFlight
    /\ isLoading' = TRUE
    /\ error' = None
    /\ data' = None
    /\ calls' = Append(calls, [pc |-> "fetch", request |-> RequestBody,
                               response |-> None])
    /\ UNCHANGED <<channelsInput, videoUrl>>

\* The route handles the request and fetch resolves with its response.
RouteResponds(i) ==
    /\ calls[i].pc = "fetch"
    /\ \E world \in Worlds :
          calls' = [calls EXCEPT ![i] =
                       [pc |-> "json", request |-> calls[i].request,
                        response |-> Some(POST(Some(calls[i].request), world))]]
    /\ UNCHANGED <<channelsInput, videoUrl, isLoading, error, data>>

\* Something in front of the route answers instead of it (the framework's own
\* error page, a proxy): a failure status with a body that is not JSON or is
\* JSON without an error field, or a body with an error field.
ForeignResponses ==
    {JsonResponse([kind |-> "unparseable"], 500),
     JsonResponse([kind |-> "object"], 404),
     JsonResponse([kind |-> "error", error |-> "Bad gateway"], 200)}

ForeignResponds(i) ==
    /\ calls[i].pc = "fetch"
    /\ \E r \in ForeignResponses :
          calls' = [calls EXCEPT ![i] =
                       [pc |-> "json", request |-> calls[i].request,
                        response |-> Some(r)]]
    /\ UNCHANGED <<channelsInput, videoUrl, isLoading, error, data>>

\* fetch rejects (the network is down): a TypeError.
FetchRejects(i) ==
    /\ calls[i].pc = "fetch"
    /\ HandleFailure(i, Threw(TRUE, FetchFailedMsg))

\* response.json() rejects: the body is not JSON.
JsonRejects(i) ==
    /\ calls[i].pc = "json"
    /\ calls[i].response[1].body.kind = "unparseable"
    /\ HandleFailure(i, Threw(TRUE, JsonSyntaxMsg))

\* if (!response.ok || json.error) throw new Error(json.error || "Failed ...")
ResponseFails(i) ==
    LET response == calls[i].response[1]
        json == response.body
    IN  /\ calls[i].pc = "json"
        /\ json.kind # "unparseable"
        /\ ~ResponseOk(response) \/ JsonError(json) # ""
        /\ HandleFailure(i, Threw(TRUE, IF JsonError(json) # "" THEN JsonError(json)
                                        ELSE FailedMsg))

\* setData(json); finally { setIsLoading(false) }
ResponseSucceeds(i) ==
    LET response == calls[i].response[1]
        json == response.body
    IN  /\ calls[i].pc = "json"
        /\ json.kind # "unparseable"
        /\ ResponseOk(response) /\ JsonError(json) = ""
        /\ data' = Some(json)
        /\ isLoading' = FALSE
        /\ calls' = Without(i)
        /\ UNCHANGED <<channelsInput, videoUrl, error>>

\* Any step by which a request in flight moves on.
Settle ==
    \E i \in 1..Len(calls) :
        \/ RouteResponds(i)
        \/ ForeignResponds(i)
        \/ FetchRejects(i)
        \/ JsonRejects(i)
        \/ ResponseFails(i)
        \/ ResponseSucceeds(i)


\* ------------------------------------------------------------ frequency maps

\* A frequency map is the sequence of its entries in the order the keys were
\* first inserted; a ranked list is a sequence of entries too.
Entry(w, n) == [word |-> w, count |-> n]

HasWord(freq, w) == \E i \in 1..Len(freq) : freq[i].word = w
CountOf(freq, w) ==
    IF HasWord(freq, w)
    THEN (freq[CHOOSE i \in 1..Len(freq) : freq[i].word = w]).count
    ELSE 0

\* freq[w] = (freq[w] ?? 0) + n
AddCount(freq, w, n) ==
    IF HasWord(freq, w)
    THEN [i \in 1..Len(freq) |->
             IF freq[i].word = w THEN Entry(w, freq[i].count + n) ELSE freq[i]]
    ELSE Append(freq, Entry(w, n))

RECURSIVE CountFreq(_)
CountFreq(tokens) ==
    IF tokens = << >> THEN << >>
    ELSE AddCount(CountFreq(SubSeq(tokens, 1, Len(tokens) - 1)), tokens[Len(tokens)], 1)

\* Stable sort by descending count: an entry goes behind every entry whose
\* count is at least its own.
InsertDesc(sorted, e) ==
    LET k == Cardinality({i \in 1..Len(sorted) : sorted[i].count >= e.count})
    IN  SubSeq(sorted, 1, k) \o << e >> \o SubSeq(sorted, k + 1, Len(sorted))

RECURSIVE SortByCountDesc(_)
SortByCountDesc(entries) ==
    IF entries = << >> THEN << >>
    ELSE InsertDesc(SortByCountDesc(SubSeq(entries, 1, Len(entries) - 1)),
                    entries[Len(entries)])

\* Array.prototype.slice(0, n)
Take(list, n) == SubSeq(list, 1, IF Len(list) < n THEN Len(list) ELSE n)

RECURSIVE SelectEntries(_, _)
SelectEntries(entries, keep) ==
    IF entries = << >> THEN << >>
    ELSE IF Head(entries).word \in keep
         THEN << Head(entries) >> \o SelectEntries(Tail(entries), keep)
         ELSE SelectEntries(Tail(entries), keep)

\* ------------------------------------------------------------ prettyFrequency

\* Words that are canonical array indices, with their numeric values.
IndexValue == [w \in {"5", "10"} |-> IF w = "5" THEN 5 ELSE 10]
IsIndex(w) == w \in DOMAIN IndexValue

\* Ascending numeric order of the index-like keys.
RECURSIVE IndexKeysAscending(_)
IndexKeysAscending(ws) ==
    IF ws = {} THEN << >>
    ELSE LET m == CHOOSE w \in ws : \A v \in ws : IndexValue[w] <= IndexValue[v]
         IN  << m >> \o IndexKeysAscending(ws \ {m})

RECURSIVE EntriesOfKeys(_, _)
EntriesOfKeys(freq, keys) ==
    IF keys = << >> THEN << >>
    ELSE << Entry(Head(keys), CountOf(freq, Head(keys))) >>
         \o EntriesOfKeys(freq, Tail(keys))

\* Object.entries(freq): the integer-like keys in ascending numeric order,
\* then the other keys in insertion order.
ObjectEntries(freq) ==
    LET indexWords == {freq[i].word : i \in 1..Len(freq)} \cap DOMAIN IndexValue
        others == {freq[i].word : i \in 1..Len(freq)} \ DOMAIN IndexValue
    IN  EntriesOfKeys(freq, IndexKeysAscending(indexWords))
        \o SelectEntries(freq, others)

\* String.prototype.toUpperCase on the words of the model.
ToUpperCase(w) ==
    CASE w = "top" -> "TOP"
      [] w = "news" -> "NEWS"
      [] w = "why" -> "WHY"
      [] w = "how" -> "HOW"
      [] w = "best" -> "BEST"
      [] w = "the" -> "THE"
      [] w = "#news" -> "#NEWS"
      [] OTHER -> w

\* .slice(0, 6)
PrettyLimit == 6
NoPatternMsg == "No pattern data yet."

RECURSIVE FormatEntries(_)
FormatEntries(entries) ==
    IF entries = << >> THEN << >>
    ELSE << Entry(ToUpperCase(Head(entries).word), Head(entries).count) >>
         \o FormatEntries(Tail(entries))

\* The text prettyFrequency returns, as the list of its "WORD (count)" items,
\* or the placeholder when the map is empty.
PrettyText(entries) ==
    IF entries = << >> THEN [text |-> NoPatternMsg, items |-> << >>]
    ELSE [text |-> "", items |-> FormatEntries(entries)]

prettyFrequencyUnsorted(freq) == PrettyText(Take(ObjectEntries(freq), PrettyLimit))

prettyFrequency(freq) ==
    PrettyText(Take(SortByCountDesc(ObjectEntries(freq)), PrettyLimit))

\* ------------------------------------------------------- TextStatsAggregator

\* The channel samples, tokenized: one event per token, in reading order, with
\* the channel it comes from and whether it opens a title.
ChannelIds == << "c1", "c2" >>
TokenWords == {"top", "5", "news", "the", "#news"}
Stopwords == {"the"}
Hashtags == {"#news"}
\* Ranked lists are cut to the top N.
TopN == 2

TokenEvents == [channel : {"c1", "c2"}, opens : BOOLEAN, word : TokenWords]

\* Every channel's first token opens a title.
WellFormed(events) ==
    \A i \in 1..Len(events) :
        (\A j \in 1..(i - 1) : events[j].channel # events[i].channel)
            => events[i].opens

SampleInputs ==
    {ev \in UNION {[1..k -> TokenEvents] : k \in 0..MaxTokens} : WellFormed(ev)}

RECURSIVE WordsWhere(_, _, _)
\* The words of the events of channel c, all of them or only the title openers.
WordsWhere(events, c, openersOnly) ==
    IF events = << >> THEN << >>
    ELSE LET e == Head(events)
             rest == WordsWhere(Tail(events), c, openersOnly)
         IN  IF e.channel = c /\ (e.opens \/ ~openersOnly)
             THEN << e.word >> \o rest ELSE rest

RECURSIVE FilterWords(_, _)
FilterWords(ws, keep) ==
    IF ws = << >> THEN << >>
    ELSE IF Head(ws) \in keep THEN << Head(ws) >> \o FilterWords(Tail(ws), keep)
         ELSE FilterWords(Tail(ws), keep)

\* Ranking: descending by count, ties in first-seen order, cut to the top N.
Rank(freq) == Take(SortByCountDesc(freq), TopN)

\* Per-channel analysis of one channel's sample.
AnalyzeChannel(events, c) ==
    LET tokens == WordsWhere(events, c, FALSE)
    IN  [channelId |-> c,
         topKeywords |->
             Rank(CountFreq(FilterWords(tokens, TokenWords \ (Stopwords \cup Hashtags)))),
         commonHashtags |-> Rank(CountFreq(FilterWords(tokens, Hashtags))),
         firstWordFrequency |-> CountFreq(WordsWhere(events, c, TRUE))]

\* Summing the counts of identical tokens over the lists, in channel order.
RECURSIVE MergeIntoKeepsFirst(_, _)
MergeIntoKeepsFirst(freq, list) ==
    IF list = << >> THEN freq
    ELSE MergeIntoKeepsFirst(
             IF HasWord(freq, Head(list).word) THEN freq ELSE Append(freq, Head(list)),
             Tail(list))

RECURSIVE MergeInto(_, _)
MergeInto(freq, list) ==
    IF list = << >> THEN freq
    ELSE MergeInto(AddCount(freq, Head(list).word, Head(list).count), Tail(list))

RECURSIVE MergeLists(_)
MergeLists(lists) ==
    IF lists = << >> THEN << >>
    ELSE MergeInto(MergeLists(SubSeq(lists, 1, Len(lists) - 1)), lists[Len(lists)])

RECURSIVE SuppliedChannels(_, _)
\* The channels that have a sample, in the order of the channel list.
SuppliedChannels(events, ids) ==
    IF ids = << >> THEN << >>
    ELSE IF \E i \in 1..Len(events) : events[i].channel = Head(ids)
         THEN << Head(ids) >> \o SuppliedChannels(events, Tail(ids))
         ELSE SuppliedChannels(events, Tail(ids))

\* The aggregator on tokenized samples: per-channel analyses, then the
\* aggregate lists; InvalidInput when no channel sample is supplied.
Aggregate(events) ==
    LET ids == SuppliedChannels(events, ChannelIds)
        analyses == [k \in 1..Len(ids) |-> AnalyzeChannel(events, ids[k])]
    IN  IF ids = << >> THEN Threw(TRUE, InvalidInputMsg)
        ELSE Returned(
            [channelAnalyses |-> analyses,
             aggregateKeywords |->
                 Rank(MergeLists([k \in 1..Len(ids) |-> analyses[k].topKeywords])),
             aggregateHashtags |->
                 Rank(MergeLists([k \in 1..Len(ids) |-> analyses[k].commonHashtags])),
             aggregateFirstWords |->
                 Rank(MergeLists([k \in 1..Len(ids) |->
                                     analyses[k].firstWordFrequency]))])

\* ------------------------------------------- frequency maps shown by the page

\* Key orders of the maps handed to prettyFrequency directly: the runs of
\* consecutive keys of KeyOrder, forwards or backwards.
KeyOrder == << "top", "10", "news", "5", "why", "how", "best" >>
Reverse(seq) == [i \in 1..Len(seq) |-> seq[Len(seq) + 1 - i]]

KeyRuns ==
    {SubSeq(o, i, j) : o \in {KeyOrder, Reverse(KeyOrder)},
                       i \in 1..Len(KeyOrder), j \in 0..Len(KeyOrder)}

FreqMaps ==
    UNION {{[i \in 1..Len(keys) |-> Entry(keys[i], counts[i])] :
               counts \in [1..Len(keys) -> 1..MaxCount]} : keys \in KeyRuns}

\* --------------------------------------------------- pure-function harnesses

\* The aggregator runs on the samples.
RunAggregate ==
    /\ analysis = None
    /\ freqInput = None
    /\ analysis' = Some(Aggregate(samples))
    /\ UNCHANGED <<samples, freqInput, pretty>>

\* The page renders one channel's opening-word trends.
RenderTrends ==
    /\ analysis # None
    /\ analysis[1].kind = "returned"
    /\ pretty = None
    /\ \E k \in 1..Len(analysis[1].value.channelAnalyses) :
          LET freq == analysis[1].value.channelAnalyses[k].firstWordFrequency
          IN  /\ freqInput' = Some(freq)
              /\ pretty' = Some(prettyFrequency(freq))
    /\ UNCHANGED <<samples, analysis>>

\* prettyFrequency on a map received from elsewhere.
RenderMap ==
    /\ analysis = None
    /\ freqInput # None
    /\ pretty = None
    /\ pretty' = Some(prettyFrequency(freqInput[1]))
    /\ UNCHANGED <<samples, analysis, freqInput>>

StatsInit ==
    /\ channelsInput = defaultChannels
    /\ videoUrl = << >>
    /\ isLoading = FALSE
    /\ error = None
    /\ data = None
    /\ calls = << >>
    /\ routeRequest = None
    /\ routeWorld = None
    /\ routeResponse = None
    /\ analysis = None
    /\ pretty = None
    /\ \/ samples \in SampleInputs /\ freqInput = None
       \/ samples = << >> /\ freqInput \in {Some(f) : f \in FreqMaps}

StatsNext ==
    \/ RunAggregate /\ UNCHANGED <<pageVars, routeVars>>
    \/ RenderTrends /\ UNCHANGED <<pageVars, routeVars>>
    \/ RenderMap /\ UNCHANGED <<pageVars, routeVars>>

StatsSpec == StatsInit /\ [][StatsNext]_vars

\* Bodies a client may post: not JSON (None), or a payload.
RouteChannelLists == UNION {[1..k -> {<< "a" >>, << "a", "a" >>}] : k \in 0..2}
RouteTargets == {None, Some(<< "v" >>), Some(<< " " >>)}
RouteBodies ==
    {None} \cup {Some([channels |-> c, targetVideoUrl |-> t]) :
                    c \in RouteChannelLists, t \in RouteTargets}

\* The route handles the posted request.
RoutePOST ==
    /\ routeResponse = None
    /\ routeResponse' = Some(POST(routeRequest[1], routeWorld[1]))
    /\ UNCHANGED <<routeRequest, routeWorld>>

RouteInit ==
    /\ channelsInput = defaultChannels
    /\ videoUrl = << >>
    /\ isLoading = FALSE
    /\ error = None
    /\ data = None
    /\ calls = << >>
    /\ routeRequest \in {Some(b) : b \in RouteBodies}
    /\ routeWorld \in {Some(w) : w \in Worlds}
    /\ routeResponse = None
    /\ samples = << >>
    /\ analysis = None
    /\ freqInput = None
    /\ pretty = None

RouteNext == RoutePOST /\ UNCHANGED <<pageVars, statsVars>>

RouteSpec == RouteInit /\ [][RouteNext]_vars

Init ==
    /\ channelsInput = defaultChannels
    /\ videoUrl = << >>
    /\ isLoading = FALSE
    /\ error = None
    /\ data = None
    /\ calls = << >>
    /\ routeRequest = None
    /\ routeWorld = None
    /\ routeResponse = None
    /\ samples = << >>
    /\ analysis = None
    /\ freqInput = None
    /\ pretty = None

Next ==
    \/ SetChannelsInput /\ UNCHANGED <<routeVars, statsVars>>
    \/ SetVideoUrl /\ UNCHANGED <<routeVars, statsVars>>
    \/ ClickRejected /\ UNCHANGED <<routeVars, statsVars>>
    \/ ClickSends /\ UNCHANGED <<routeVars, statsVars>>
    \/ (\E i \in 1..Len(calls) : RouteResponds(i)) /\ UNCHANGED <<routeVars, statsVars>>
    \/ (\E i \in 1..Len(calls) : ForeignResponds(i)) /\ UNCHANGED <<routeVars, statsVars>>
    \/ (\E i \in 1..Len(calls) : FetchRejects(i)) /\ UNCHANGED <<routeVars, statsVars>>
    \/ (\E i \in 1..Len(calls) : JsonRejects(i)) /\ UNCHANGED <<routeVars, statsVars>>
    \/ (\E i \in 1..Len(calls) : ResponseFails(i)) /\ UNCHANGED <<routeVars, statsVars>>
    \/ (\E i \in 1..Len(calls) : ResponseSucceeds(i)) /\ UNCHANGED <<routeVars, statsVars>>

Spec == Init /\ [][Next]_vars

\* A request that was sent is answered and its answer is handled.
FairSpec == Spec /\ WF_vars(Settle /\ UNCHANGED <<routeVars, statsVars>>)

\* ================================================================== claims

IsBlank(t) == \A i \in 1..Len(t) : t[i] \in Whitespace
NoDuplicates(list) ==
    \A i, j \in 1..Len(list) : list[i].word = list[j].word => i = j
NonIncreasing(list) ==
    \A i \in 1..(Len(list) - 1) : list[i].count >= list[i + 1].count
\* The call at position i of `calls` has just ended.
Ended(i) == i \in 1..Len(calls) /\ calls' = Without(i)
RequestFailed(c) ==
    \/ c.pc = "fetch"
    \/ c.response[1].body.kind \in {"unparseable", "error"}
    \/ ~(c.response[1].status \in 200..299)

\* C1: the route handler answers every request: when parsing the body or the
\* analysis throws, the answer is { error: message } with status 400, the message
\* being the thrown Error's message or "Unexpected error" for a value that is no
\* Error; otherwise the answer is the analysis result with a success status.
C1_RouteMapsThrowTo400 ==
    routeResponse # None =>
        LET body == routeRequest[1]
            r == routeResponse[1]
            outcome == IF body = None THEN Threw(TRUE, JsonSyntaxMsg)
                       ELSE analyzeChannelsAndSuggest(body[1], routeWorld[1])
        IN  /\ DOMAIN r = {"status", "body"}
            /\ outcome.kind = "threw" =>
                  /\ r.status = 400
                  /\ r.body.kind = "error"
                  /\ outcome.isError => r.body.error = outcome.message
                  /\ ~outcome.isError => r.body.error = "Unexpected error"
            /\ outcome.kind = "returned" =>
                  /\ r.status \in 200..299
                  /\ r.body = outcome.value

C1_Witness ==
    /\ routeResponse # None
    /\ routeRequest[1] # None
    /\ routeResponse[1].status = 400
    /\ routeResponse[1].body.error = "Unexpected error"

\* C2: a failure response of the route carries only the error field, and when a
\* request sent by handleAnalyze fails (fetch rejects, the body is not JSON, the
\* status is not OK or the body has an error field) the page is left with error
\* set (to the body's error message when it has one) and data null.
C2_NoPartialResults ==
    /\ [](\A i \in 1..Len(calls) :
             (calls[i].pc = "json" /\ calls[i].response[1].status = 400)
                 => /\ calls[i].response[1].body.kind = "error"
                    /\ DOMAIN calls[i].response[1].body = {"kind", "error"})
    /\ [][\A i \in 1..Len(calls) :
             (Ended(i) /\ RequestFailed(calls[i]))
                 => /\ error' # None
                    /\ data' = None
                    /\ (calls[i].pc = "json"
                          /\ calls[i].response[1].body.kind = "error"
                          /\ calls[i].response[1].body.error # "")
                         => error' = Some(calls[i].response[1].body.error)]_vars

C2_Witness ==
    /\ ~isLoading
    /\ calls = << >>
    /\ error = Some("ResolutionFailure")
    /\ data = None

\* C3: a result carries a recommendation exactly when a target video was
\* supplied (and resolved); when the video link field is empty or blank the
\* request omits targetVideoUrl and the result shown has no recommendation.
C3_RecommendationIffTarget ==
    /\ [](\A i \in 1..Len(calls) :
             (calls[i].pc = "json" /\ calls[i].response[1].body.kind = "result")
                 => ((calls[i].response[1].body.recommendation # None)
                        <=> (calls[i].request.targetVideoUrl # None)))
    /\ [][(Len(calls') = Len(calls) + 1)
             => (IsBlank(videoUrl)
                    <=> calls'[Len(calls')].request.targetVideoUrl = None)]_vars
    /\ [][\A i \in 1..Len(calls) :
             (Ended(i) /\ data' # None)
                 => ((data'[1].recommendation # None)
                        <=> (calls[i].request.targetVideoUrl # None))]_vars

C3_Witness ==
    /\ videoUrl = << " " >>
    /\ calls = << >>
    /\ ~isLoading
    /\ data # None
    /\ data[1].recommendation = None

\* C4: an empty channel list is an InvalidInput error: the aggregator throws it
\* for every payload without channels, and when the channel input has no
\* non-blank line a click on Run analysis sets the message, sends no request and
\* produces no analysis.
C4_EmptyChannelsRejected ==
    /\ [](\A w \in Worlds, t \in RouteTargets :
             analyzeChannelsAndSuggest([channels |-> << >>, targetVideoUrl |-> t], w)
                 = Threw(TRUE, "InvalidInput"))
    /\ [][(IsBlank(channelsInput) /\ calls = << >>
             /\ <<isLoading, error, data, calls>>' # <<isLoading, error, data, calls>>)
            => (/\ error' = Some("Add at least one channel to analyze.")
                /\ calls' = << >>
                /\ data' = data
                /\ isLoading' = isLoading)]_vars
    /\ [](\A i \in 1..Len(calls) : calls[i].request.channels # << >>)

C4_Witness ==
    /\ channelsInput = << " ", "\n" >>
    /\ error = Some("Add at least one channel to analyze.")
    /\ calls = << >>
    /\ ~isLoading

RankedListsOf(result) ==
    {result.aggregateKeywords, result.aggregateHashtags, result.aggregateFirstWords}
    \cup {result.channelAnalyses[k].topKeywords : k \in 1..Len(result.channelAnalyses)}
    \cup {result.channelAnalyses[k].commonHashtags : k \in 1..Len(result.channelAnalyses)}

\* C5: every ranked list made from a frequency map (the per-channel and the
\* aggregate lists, and the ranking prettyFrequency shows) holds no token twice
\* and is ordered by non-increasing count.
C5_RankedListsSortedUnique ==
    /\ (analysis # None /\ analysis[1].kind = "returned")
          => \A list \in RankedListsOf(analysis[1].value) :
                 NoDuplicates(list) /\ NonIncreasing(list)
    /\ pretty # None
          => NoDuplicates(pretty[1].items) /\ NonIncreasing(pretty[1].items)

C5_Witness ==
    /\ pretty # None
    /\ Len(pretty[1].items) = 6
    /\ Len(freqInput[1]) = 7
    /\ pretty[1].items[1].count > pretty[1].items[6].count
    /\ freqInput[1][1].count < freqInput[1][7].count

RECURSIVE SumCounts(_, _)
SumCounts(lists, w) ==
    IF lists = << >> THEN 0
    ELSE CountOf(Head(lists), w) + SumCounts(Tail(lists), w)

\* C6: the count of every token of an aggregate list is the sum of the counts
\* that token has in the channels' analyses.
C6_AggregateCountsAreSums ==
    (analysis # None /\ analysis[1].kind = "returned") =>
        LET r == analysis[1].value
            n == Len(r.channelAnalyses)
            Sums(list, perChannel) ==
                \A i \in 1..Len(list) :
                    list[i].count = SumCounts(perChannel, list[i].word)
        IN  /\ Sums(r.aggregateKeywords,
                    [k \in 1..n |-> r.channelAnalyses[k].topKeywords])
            /\ Sums(r.aggregateHashtags,
                    [k \in 1..n |-> r.channelAnalyses[k].commonHashtags])
            /\ Sums(r.aggregateFirstWords,
                    [k \in 1..n |-> r.channelAnalyses[k].firstWordFrequency])

C6_Witness ==
    /\ analysis # None
    /\ analysis[1].kind = "returned"
    /\ Len(analysis[1].value.channelAnalyses) = 2
    /\ \E i \in 1..Len(analysis[1].value.aggregateKeywords) :
          /\ analysis[1].value.aggregateKeywords[i].count = 2
          /\ CountOf(analysis[1].value.channelAnalyses[1].topKeywords,
                     analysis[1].value.aggregateKeywords[i].word) = 1

\* Position of the key shown as `shown` in the map's first-seen order.
FirstSeen(freq, shown) ==
    CHOOSE k \in 1..Len(freq) : ToUpperCase(freq[k].word) = shown

\* First position of word w among the events of channel c.
FirstUse(events, c, w) ==
    CHOOSE k \in 1..Len(events) :
        /\ events[k].channel = c /\ events[k].word = w
        /\ \A m \in 1..(k - 1) : ~(events[m].channel = c /\ events[m].word = w)

TiesByFirstUse(list, c) ==
    \A i, j \in 1..Len(list) :
        (i < j /\ list[i].count = list[j].count)
            => FirstUse(samples, c, list[i].word) < FirstUse(samples, c, list[j].word)

\* The aggregator's per-channel ranked lists keep ties in first-seen order.
AggregatorTiesInFirstSeenOrder ==
    (analysis # None /\ analysis[1].kind = "returned") =>
        \A k \in 1..Len(analysis[1].value.channelAnalyses) :
            LET a == analysis[1].value.channelAnalyses[k]
            IN  /\ TiesByFirstUse(a.topKeywords, a.channelId)
                /\ TiesByFirstUse(a.commonHashtags, a.channelId)

\* The ranking prettyFrequency shows keeps ties in the map's first-seen order.
PrettyTiesInFirstSeenOrder ==
    (pretty # None /\ freqInput # None) =>
        \A i, j \in 1..Len(pretty[1].items) :
            (i < j /\ pretty[1].items[i].count = pretty[1].items[j].count)
                => FirstSeen(freqInput[1], pretty[1].items[i].word)
                     < FirstSeen(freqInput[1], pretty[1].items[j].word)

\* C7: when a frequency map is ranked, entries with equal counts appear in
\* first-seen order, in the aggregator's ranked lists and in the ranking
\* prettyFrequency shows, for every map of words to counts.
C7_TiesInFirstSeenOrder ==
    AggregatorTiesInFirstSeenOrder /\ PrettyTiesInFirstSeenOrder

\* C8: isLoading is true exactly while a request of handleAnalyze is in flight,
\* and a request that settles sets it back to false.
C8_LoadingWhileInFlight ==
    /\ [](isLoading <=> calls # << >>)
    /\ (isLoading ~> ~isLoading)

C8_Witness ==
    /\ ~isLoading
    /\ calls = << >>
    /\ error = Some("Failed to fetch")

\* C9: at most one request is in flight, and the call whose answer is shown is
\* the most recently started one.
C9_OneRequestInFlight ==
    /\ [](Len(calls) <= 1)
    /\ [][Len(calls') < Len(calls)
             => calls' = SubSeq(calls, 1, Len(calls) - 1)]_vars

C9_Witness ==
    /\ Len(calls) = 1
    /\ calls[1].pc = "json"
    /\ isLoading
    /\ channels # << >>
    /\ channelsInput # defaultChannels

\* C10: error and data are never both non-null.
C10_NeverErrorWithData == ~(error # None /\ data # None)

====
